---- MODULE Spec2Model ----
(***************************************************************************)
(* Model of src/spir.py: MatrixParser.parse_matrix, SpiralTraverser        *)
(* .traverse, MatrixClient.fetch_matrix and get_matrix.                    *)
(*                                                                         *)
(* A Python str is a sequence of one-character strings; a list is a        *)
(* sequence.  Indices of the traversal (top, bottom, left, right, k) are   *)
(* 0-based as in the source; Item translates them to sequence positions.   *)
(***************************************************************************)
EXTENDS Integers, Sequences, FiniteSets, TLC

VARIABLES entry, pc, text, lines, li, matrix, n, top, bottom, left, right,
          k, result, cells, head, exc, ret, client, calls

vars == <<entry, pc, text, lines, li, matrix, n, top, bottom, left, right,
          k, result, cells, head, exc, ret, client, calls>>

\* Bounds of the model.
MaxN == 4
MaxRows == 3
MaxCols == 3

(***************************************************************************)
(* Python str operations used by parse_matrix.                             *)
(***************************************************************************)
Whitespace == {" ", "\n", "\t", "\r"}

Digits == <<"0", "1", "2", "3", "4", "5", "6", "7", "8", "9">>

IsDigit(c) == \E d \in 1..Len(Digits) : Digits[d] = c

DigitVal(c) == (CHOOSE d \in 1..Len(Digits) : Digits[d] = c) - 1

RECURSIVE LStrip(_, _)
LStrip(s, cs) ==
    IF s # <<>> /\ Head(s) \in cs THEN LStrip(Tail(s), cs) ELSE s

RECURSIVE RStrip(_, _)
RStrip(s, cs) ==
    IF s # <<>> /\ s[Len(s)] \in cs THEN RStrip(SubSeq(s, 1, Len(s) - 1), cs) ELSE s

\* str.strip(): both ends, every character of cs.
Strip(s, cs) == RStrip(LStrip(s, cs), cs)

\* str.split(sep) with a one-character separator: "".split(sep) = [""].
RECURSIVE Split(_, _)
Split(s, sep) ==
    IF \A i \in 1..Len(s) : s[i] # sep
    THEN <<s>>
    ELSE LET p == CHOOSE i \in 1..Len(s) :
                      s[i] = sep /\ \A j \in 1..(i - 1) : s[j] # sep
         IN <<SubSeq(s, 1, p - 1)>> \o Split(SubSeq(s, p + 1, Len(s)), sep)

StartsWith(s, c) == s # <<>> /\ s[1] = c

Contains(s, c) == \E i \in 1..Len(s) : s[i] = c

RECURSIVE DecimalValue(_)
DecimalValue(s) ==
    IF s = <<>> THEN 0
    ELSE IF s[Len(s)] = "_" THEN DecimalValue(SubSeq(s, 1, Len(s) - 1))
    ELSE 10 * DecimalValue(SubSeq(s, 1, Len(s) - 1)) + DigitVal(s[Len(s)])

\* int(str): surrounding whitespace, an optional sign, decimal digits with
\* single underscores allowed between digits; anything else is a ValueError.
IntParse(s) ==
    LET t == Strip(s, Whitespace)
        signed == t # <<>> /\ t[1] \in {"+", "-"}
        body == IF signed THEN Tail(t) ELSE t
        wellFormed ==
            /\ body # <<>>
            /\ IsDigit(body[1])
            /\ IsDigit(body[Len(body)])
            /\ \A i \in 1..Len(body) : IsDigit(body[i]) \/ body[i] = "_"
            /\ \A i \in 1..(Len(body) - 1) : ~(body[i] = "_" /\ body[i + 1] = "_")
    IN IF ~wellFormed THEN [ok |-> FALSE, val |-> 0]
       ELSE [ok |-> TRUE,
             val |-> IF signed /\ t[1] = "-" THEN 0 - DecimalValue(body)
                     ELSE DecimalValue(body)]

(***************************************************************************)
(* Exceptions and return values.                                           *)
(***************************************************************************)
NoExc == [type |-> "None", msg |-> "", expected |-> 0, actual |-> 0, wrapped |-> FALSE]

Raised(type, msg) ==
    [type |-> type, msg |-> msg, expected |-> 0, actual |-> 0, wrapped |-> FALSE]

NoRet == [kind |-> "none", val |-> <<>>]

(***************************************************************************)
(* MatrixParser.parse_matrix                                               *)
(***************************************************************************)
\* The body of "for num in numbers": the row built so far, or the failure of
\* int() on the first field that it rejects.
RECURSIVE ConvertFields(_, _)
ConvertFields(numbers, row) ==
    IF numbers = <<>> THEN [ok |-> TRUE, row |-> row]
    ELSE LET cleaned_num == Strip(Head(numbers), Whitespace)
         IN IF cleaned_num = <<>> THEN ConvertFields(Tail(numbers), row)
            ELSE IF ~IntParse(cleaned_num).ok THEN [ok |-> FALSE, row |-> <<>>]
            ELSE ConvertFields(Tail(numbers), Append(row, IntParse(cleaned_num).val))

\* ConvertFields dropping the fields int() rejects.
RECURSIVE ConvertFieldsLenient(_, _)
ConvertFieldsLenient(numbers, row) ==
    IF numbers = <<>> THEN [ok |-> TRUE, row |-> row]
    ELSE LET cleaned_num == Strip(Head(numbers), Whitespace)
         IN IF cleaned_num = <<>> \/ ~IntParse(cleaned_num).ok
            THEN ConvertFieldsLenient(Tail(numbers), row)
            ELSE ConvertFieldsLenient(Tail(numbers), Append(row, IntParse(cleaned_num).val))

ParseRowLenient(line) == ConvertFieldsLenient(Split(Strip(line, {"|"}), "|"), <<>>)

ParseRow(line) == ConvertFields(Split(Strip(line, {"|"}), "|"), <<>>)

IsBorder(line) == StartsWith(line, "+")

IsDataLine(line) == Contains(line, "|")

\* BadRows comparing every row with the first row's width.
BadRowsFirstWidth(m) == {r \in 1..Len(m) : Len(m[r]) # Len(m[1])}

\* The rows the squareness check rejects.
BadRows(m) == {r \in 1..Len(m) : Len(m[r]) # Len(m)}

\* ShapeErrorExpected taken from the first row.
ShapeErrorExpectedFirstRow(m) == Len(m[1])

ShapeErrorExpected(m) == Len(m)

ShapeError(m) ==
    LET r == CHOOSE x \in BadRows(m) : \A y \in BadRows(m) : x <= y
    IN [type |-> "ValueError", msg |-> "not square",
        expected |-> ShapeErrorExpected(m), actual |-> Len(m[r]), wrapped |-> FALSE]

(***************************************************************************)
(* Inputs.                                                                 *)
(***************************************************************************)
\* Decimal text of a natural number.
RECURSIVE NumText(_)
NumText(v) ==
    IF v < 10 THEN <<Digits[v + 1]>>
    ELSE NumText(v \div 10) \o <<Digits[(v % 10) + 1]>>

\* The field of grid cell number v: padded, every third one negative.
Field(v) ==
    <<" ">> \o (IF v % 3 = 0 THEN <<"-">> ELSE <<>>) \o NumText(v) \o <<" ">>

\* "|f1|f2|...|"
RECURSIVE GridLine(_)
GridLine(fields) ==
    IF fields = <<>> THEN <<"|">> ELSE <<"|">> \o Head(fields) \o GridLine(Tail(fields))

Grid(r, c) == [i \in 1..r |-> [j \in 1..c |-> Field((i - 1) * c + j)]]

OddFields ==
    { <<"x">>,
      <<" ", "1", "_", "0">>,
      <<" ", " ">>,
      <<"+", "7", " ">>,
      <<"1", "-">> }

OddLines ==
    { <<"+", "-", "+">>,
      <<>>,
      <<"|", " ", "|">>,
      <<"|", "|">>,
      <<"1", " ", "2">>,
      <<"4", " ", "|", " ", "5">>,
      <<" ", "+", "3", "|", "4", " ">> }

\* A grid, or a grid with one odd field, or with one row a field longer.
FieldGrids(r, c) ==
    {Grid(r, c)}
        \cup {[Grid(r, c) EXCEPT ![i][j] = f] : i \in 1..r, j \in 1..c, f \in OddFields}
        \cup {[Grid(r, c) EXCEPT ![i] = Append(@, Field(0))] : i \in 1..r}

GridLines(g) == [i \in 1..Len(g) |-> GridLine(g[i])]

\* The lines of a grid, or those lines with one of them replaced by an odd line.
LineSeqs(r, c) ==
    {GridLines(g) : g \in FieldGrids(r, c)}
        \cup {[GridLines(Grid(r, c)) EXCEPT ![i] = o] : i \in 1..r, o \in OddLines}

\* "+-+" before every line and after the last one.
RECURSIVE Bordered(_)
Bordered(ls) ==
    IF ls = <<>> THEN <<<<"+", "-", "+">>>>
    ELSE <<<<"+", "-", "+">>, Head(ls)>> \o Bordered(Tail(ls))

RECURSIVE JoinLines(_)
JoinLines(ls) ==
    IF ls = <<>> THEN <<>>
    ELSE IF Len(ls) = 1 THEN ls[1]
    ELSE ls[1] \o <<"\n">> \o JoinLines(Tail(ls))

TextPool ==
    UNION {{JoinLines(ls), JoinLines(Bordered(ls)) \o <<"\n">>} :
               ls \in UNION {LineSeqs(r, c) : r \in 0..MaxRows, c \in 1..MaxCols}}

RowMajor(d) == [i \in 1..d |-> [j \in 1..d |-> (i - 1) * d + j]]

ColMajor(d) == [i \in 1..d |-> [j \in 1..d |-> (j - 1) * d + i]]

Zeros(d) == [i \in 1..d |-> [j \in 1..d |-> 0]]

Example3 == <<<<1, 2, 3>>, <<8, 9, 4>>, <<7, 6, 5>>>>

Example2 == <<<<1, 2>>, <<4, 3>>>>

MatrixPool ==
    UNION {{RowMajor(d), ColMajor(d), Zeros(d)} : d \in 0..MaxN}
        \cup {Example2, Example3}

NoHead == [top |-> 0, bottom |-> 0, left |-> 0, right |-> 0]

Start(e, p, t, m) ==
    /\ entry = e
    /\ pc = p
    /\ text = t
    /\ matrix = m
    /\ lines = <<>>
    /\ li = 1
    /\ n = 0
    /\ top = 0
    /\ bottom = 0
    /\ left = 0
    /\ right = 0
    /\ k = 0
    /\ result = <<>>
    /\ cells = <<>>
    /\ head = NoHead
    /\ exc = NoExc
    /\ ret = NoRet
    /\ client = "none"
    /\ calls = 0

InitTraverse == \E m \in MatrixPool : Start("traverse", "t_enter", <<>>, m)

InitParse == \E t \in TextPool : Start("parse_matrix", "p_start", t, <<>>)

Init == Start("get_matrix", "g_aenter", <<>>, <<>>)

(***************************************************************************)
(* MatrixParser.parse_matrix, one step per line of the text.               *)
(***************************************************************************)
ParseVars == <<text, lines, li, matrix>>

TraverseVars == <<n, top, bottom, left, right, k, result, cells, head, calls>>

\* Where an exception raised inside parse_matrix or traverse lands.
RaiseTo(handler) == IF entry = "get_matrix" THEN handler ELSE "done"

ParseStart ==
    /\ pc = "p_start"
    /\ lines' = Split(Strip(text, Whitespace), "\n")
    /\ matrix' = <<>>
    /\ li' = 1
    /\ pc' = "p_for"
    /\ UNCHANGED <<entry, text, exc, ret, client>>
    /\ UNCHANGED TraverseVars

ParseLine ==
    /\ pc = "p_for"
    /\ li <= Len(lines)
    /\ LET line == Strip(lines[li], Whitespace)
       IN IF ~IsBorder(line) /\ IsDataLine(line)
          THEN IF ~ParseRow(line).ok
               THEN /\ exc' = Raised("ValueError", "invalid literal")
                    /\ pc' = RaiseTo("f_except")
                    /\ UNCHANGED <<matrix, li>>
               ELSE /\ matrix' = IF ParseRow(line).row # <<>>
                                 THEN Append(matrix, ParseRow(line).row)
                                 ELSE matrix
                    /\ li' = li + 1
                    /\ UNCHANGED <<pc, exc>>
          ELSE /\ li' = li + 1
               /\ UNCHANGED <<matrix, pc, exc>>
    /\ UNCHANGED <<entry, text, lines, ret, client>>
    /\ UNCHANGED TraverseVars

ParseCheck ==
    /\ pc = "p_for"
    /\ li > Len(lines)
    /\ IF matrix # <<>> /\ BadRows(matrix) # {}
       THEN /\ exc' = ShapeError(matrix)
            /\ pc' = RaiseTo("f_except")
            /\ UNCHANGED ret
       ELSE /\ pc' = IF entry = "get_matrix" THEN "f_check" ELSE "done"
            /\ ret' = IF entry = "get_matrix" THEN ret
                      ELSE [kind |-> "matrix", val |-> matrix]
            /\ UNCHANGED exc
    /\ UNCHANGED <<entry, client>>
    /\ UNCHANGED ParseVars
    /\ UNCHANGED TraverseVars

NextParse == ParseStart \/ ParseLine \/ ParseCheck

SpecParse == InitParse /\ [][NextParse]_vars

(***************************************************************************)
(* SpiralTraverser.traverse, one step per loop test, per cell access and   *)
(* per bound update.                                                       *)
(***************************************************************************)
\* Python list indexing: -len..len-1 is accepted, negative counts from the
\* end, anything else is an IndexError.
InRange(len, i) == 0 - len <= i /\ i < len

Pos(len, i) == IF i < 0 THEN len + i + 1 ELSE i + 1

Item(m, i, j) == m[Pos(Len(m), i)][Pos(Len(m[Pos(Len(m), i)]), j)]

\* result.append(matrix[i][j]), then the loop variable moves on to nextk.
Access(i, j, nextk) ==
    IF InRange(Len(matrix), i) /\ InRange(Len(matrix[Pos(Len(matrix), i)]), j)
    THEN /\ result' = Append(result, Item(matrix, i, j))
         /\ cells' = Append(cells, <<i, j>>)
         /\ k' = nextk
         /\ UNCHANGED <<pc, exc>>
    ELSE /\ exc' = Raised("IndexError", "list index out of range")
         /\ pc' = RaiseTo("g_except")
         /\ UNCHANGED <<result, cells, k>>

LoopCond == top <= bottom /\ left <= right

Frame == <<entry, client, ret>>

TraverseEnter ==
    /\ pc = "t_enter"
    /\ calls' = calls + 1
    /\ IF matrix = <<>>
       THEN /\ ret' = [kind |-> "list", val |-> <<>>]
            /\ pc' = IF entry = "get_matrix" THEN "g_exit" ELSE "done"
            /\ UNCHANGED <<n, top, bottom, left, right, result>>
       ELSE /\ n' = Len(matrix)
            /\ result' = <<>>
            /\ top' = 0
            /\ bottom' = Len(matrix) - 1
            /\ left' = 0
            /\ right' = Len(matrix) - 1
            /\ pc' = "t_while"
            /\ UNCHANGED ret
    /\ UNCHANGED <<entry, client, exc, k, cells, head>>
    /\ UNCHANGED ParseVars

While ==
    /\ pc = "t_while"
    /\ head' = [top |-> top, bottom |-> bottom, left |-> left, right |-> right]
    /\ IF LoopCond
       THEN pc' = "t_down" /\ k' = top
       ELSE pc' = "t_return" /\ UNCHANGED k
    /\ UNCHANGED <<n, top, bottom, left, right, result, cells, calls, exc>>
    /\ UNCHANGED Frame
    /\ UNCHANGED ParseVars

WalkDown ==
    /\ pc = "t_down"
    /\ k < bottom + 1
    /\ Access(k, left, k + 1)
    /\ UNCHANGED <<n, top, bottom, left, right, head, calls>>
    /\ UNCHANGED Frame
    /\ UNCHANGED ParseVars

\* IncLeft with the walk to the right starting from the old left.
IncLeftStale ==
    /\ pc = "t_down"
    /\ ~(k < bottom + 1)
    /\ left' = left + 1
    /\ pc' = "t_right"
    /\ k' = left
    /\ UNCHANGED <<n, top, bottom, right, result, cells, head, calls, exc>>
    /\ UNCHANGED Frame
    /\ UNCHANGED ParseVars

IncLeft ==
    /\ pc = "t_down"
    /\ ~(k < bottom + 1)
    /\ left' = left + 1
    /\ pc' = "t_right"
    /\ k' = left + 1
    /\ UNCHANGED <<n, top, bottom, right, result, cells, head, calls, exc>>
    /\ UNCHANGED Frame
    /\ UNCHANGED ParseVars

\* WalkRight along the top row, as the clockwise variant would.
WalkRightTopRow ==
    /\ pc = "t_right"
    /\ k < right + 1
    /\ Access(top, k, k + 1)
    /\ UNCHANGED <<n, top, bottom, left, right, head, calls>>
    /\ UNCHANGED Frame
    /\ UNCHANGED ParseVars

WalkRight ==
    /\ pc = "t_right"
    /\ k < right + 1
    /\ Access(bottom, k, k + 1)
    /\ UNCHANGED <<n, top, bottom, left, right, head, calls>>
    /\ UNCHANGED Frame
    /\ UNCHANGED ParseVars

\* DecBottom without the decrement.
DecBottomSkipped ==
    /\ pc = "t_right"
    /\ ~(k < right + 1)
    /\ bottom' = bottom
    /\ pc' = "t_if_lr"
    /\ UNCHANGED <<n, top, left, right, k, result, cells, head, calls, exc>>
    /\ UNCHANGED Frame
    /\ UNCHANGED ParseVars

DecBottom ==
    /\ pc = "t_right"
    /\ ~(k < right + 1)
    /\ bottom' = bottom - 1
    /\ pc' = "t_if_lr"
    /\ UNCHANGED <<n, top, left, right, k, result, cells, head, calls, exc>>
    /\ UNCHANGED Frame
    /\ UNCHANGED ParseVars

IfLeftRight ==
    /\ pc = "t_if_lr"
    /\ IF left <= right
       THEN pc' = "t_up" /\ k' = bottom
       ELSE pc' = "t_if_tb" /\ UNCHANGED k
    /\ UNCHANGED <<n, top, bottom, left, right, result, cells, head, calls, exc>>
    /\ UNCHANGED Frame
    /\ UNCHANGED ParseVars

\* WalkUp running one row past top.
WalkUpOffByOne ==
    /\ pc = "t_up"
    /\ k > top - 2
    /\ Access(k, right, k - 1)
    /\ UNCHANGED <<n, top, bottom, left, right, head, calls>>
    /\ UNCHANGED Frame
    /\ UNCHANGED ParseVars

WalkUp ==
    /\ pc = "t_up"
    /\ k > top - 1
    /\ Access(k, right, k - 1)
    /\ UNCHANGED <<n, top, bottom, left, right, head, calls>>
    /\ UNCHANGED Frame
    /\ UNCHANGED ParseVars

\* DecRight without the decrement.
DecRightSkipped ==
    /\ pc = "t_up"
    /\ ~(k > top - 1)
    /\ right' = right
    /\ pc' = "t_if_tb"
    /\ UNCHANGED <<n, top, bottom, left, k, result, cells, head, calls, exc>>
    /\ UNCHANGED Frame
    /\ UNCHANGED ParseVars

DecRight ==
    /\ pc = "t_up"
    /\ ~(k > top - 1)
    /\ right' = right - 1
    /\ pc' = "t_if_tb"
    /\ UNCHANGED <<n, top, bottom, left, k, result, cells, head, calls, exc>>
    /\ UNCHANGED Frame
    /\ UNCHANGED ParseVars

IfTopBottom ==
    /\ pc = "t_if_tb"
    /\ IF top <= bottom
       THEN pc' = "t_left" /\ k' = right
       ELSE pc' = "t_while" /\ UNCHANGED k
    /\ UNCHANGED <<n, top, bottom, left, right, result, cells, head, calls, exc>>
    /\ UNCHANGED Frame
    /\ UNCHANGED ParseVars

WalkLeft ==
    /\ pc = "t_left"
    /\ k > left - 1
    /\ Access(top, k, k - 1)
    /\ UNCHANGED <<n, top, bottom, left, right, head, calls>>
    /\ UNCHANGED Frame
    /\ UNCHANGED ParseVars

\* IncTop without the increment.
IncTopSkipped ==
    /\ pc = "t_left"
    /\ ~(k > left - 1)
    /\ top' = top
    /\ pc' = "t_while"
    /\ UNCHANGED <<n, bottom, left, right, k, result, cells, head, calls, exc>>
    /\ UNCHANGED Frame
    /\ UNCHANGED ParseVars

IncTop ==
    /\ pc = "t_left"
    /\ ~(k > left - 1)
    /\ top' = top + 1
    /\ pc' = "t_while"
    /\ UNCHANGED <<n, bottom, left, right, k, result, cells, head, calls, exc>>
    /\ UNCHANGED Frame
    /\ UNCHANGED ParseVars

TraverseReturn ==
    /\ pc = "t_return"
    /\ ret' = [kind |-> "list", val |-> result]
    /\ pc' = IF entry = "get_matrix" THEN "g_exit" ELSE "done"
    /\ UNCHANGED <<entry, client, exc>>
    /\ UNCHANGED TraverseVars
    /\ UNCHANGED ParseVars

NextTraverse ==
    \/ TraverseEnter
    \/ While
    \/ WalkDown
    \/ IncLeft
    \/ WalkRight
    \/ DecBottom
    \/ IfLeftRight
    \/ WalkUp
    \/ DecRight
    \/ IfTopBottom
    \/ WalkLeft
    \/ IncTop
    \/ TraverseReturn

\* traverse is sequential code: a step that can be taken is taken.
SpecTraverse == InitTraverse /\ [][NextTraverse]_vars /\ WF_vars(NextTraverse)

(***************************************************************************)
(* MatrixClient.fetch_matrix and get_matrix.                               *)
(***************************************************************************)
\* What client.get(url) followed by raise_for_status() can do.
GetFailures == {"RequestError", "HTTPStatusError", "Exception"}

AEnter ==
    /\ pc = "g_aenter"
    /\ client' = "open"
    /\ pc' = "f_get"
    /\ UNCHANGED <<entry, exc, ret>>
    /\ UNCHANGED ParseVars
    /\ UNCHANGED TraverseVars

ClientGetFails ==
    /\ pc = "f_get"
    /\ \E f \in GetFailures : exc' = Raised(f, "")
    /\ pc' = "f_except"
    /\ UNCHANGED <<entry, client, ret>>
    /\ UNCHANGED ParseVars
    /\ UNCHANGED TraverseVars

ClientGetResponds ==
    /\ pc = "f_get"
    /\ \E t \in TextPool : text' = t
    /\ pc' = "p_start"
    /\ UNCHANGED <<entry, client, exc, ret, lines, li, matrix>>
    /\ UNCHANGED TraverseVars

\* FetchCheckEmpty without the test for an empty matrix.
FetchCheckEmptyMissing ==
    /\ pc = "f_check"
    /\ IF FALSE
       THEN exc' = Raised("ValueError", "empty matrix") /\ pc' = "f_except"
       ELSE pc' = "t_enter" /\ UNCHANGED exc
    /\ UNCHANGED <<entry, client, ret>>
    /\ UNCHANGED ParseVars
    /\ UNCHANGED TraverseVars

FetchCheckEmpty ==
    /\ pc = "f_check"
    /\ IF matrix = <<>>
       THEN exc' = Raised("ValueError", "empty matrix") /\ pc' = "f_except"
       ELSE pc' = "t_enter" /\ UNCHANGED exc
    /\ UNCHANGED <<entry, client, ret>>
    /\ UNCHANGED ParseVars
    /\ UNCHANGED TraverseVars

\* The except clauses of fetch_matrix.
FetchHandler(e) ==
    IF e.type = "HTTPStatusError" THEN Raised("ConnectionError", "server error")
    ELSE IF e.type = "RequestError" THEN Raised("ConnectionError", "network error")
    ELSE IF e.type = "ValueError" THEN [e EXCEPT !.wrapped = TRUE]
    ELSE e

FetchExcept ==
    /\ pc = "f_except"
    /\ exc' = FetchHandler(exc)
    /\ pc' = "g_except"
    /\ UNCHANGED <<entry, client, ret>>
    /\ UNCHANGED ParseVars
    /\ UNCHANGED TraverseVars

\* The except clauses of get_matrix.
GetMatrixHandler(e) ==
    IF e.type \in {"ConnectionError", "ValueError"} THEN e
    ELSE Raised("ConnectionError", "unexpected error")

GetMatrixExcept ==
    /\ pc = "g_except"
    /\ exc' = GetMatrixHandler(exc)
    /\ pc' = "g_exit"
    /\ UNCHANGED <<entry, client, ret>>
    /\ UNCHANGED ParseVars
    /\ UNCHANGED TraverseVars

AExit ==
    /\ pc = "g_exit"
    /\ client' = "closed"
    /\ pc' = "done"
    /\ UNCHANGED <<entry, exc, ret>>
    /\ UNCHANGED ParseVars
    /\ UNCHANGED TraverseVars

Next ==
    \/ AEnter
    \/ ClientGetFails
    \/ ClientGetResponds
    \/ ParseStart
    \/ ParseLine
    \/ ParseCheck
    \/ FetchCheckEmpty
    \/ FetchExcept
    \/ TraverseEnter
    \/ While
    \/ WalkDown
    \/ IncLeft
    \/ WalkRight
    \/ DecBottom
    \/ IfLeftRight
    \/ WalkUp
    \/ DecRight
    \/ IfTopBottom
    \/ WalkLeft
    \/ IncTop
    \/ TraverseReturn
    \/ GetMatrixExcept
    \/ AExit

Spec == Init /\ [][Next]_vars

(***************************************************************************)
(* Properties of traverse, checked under SpecTraverse.                     *)
(***************************************************************************)
Returned == entry = "traverse" /\ pc = "done"

Positions(d) == {<<i, j>> : i \in 0..(d - 1), j \in 0..(d - 1)}

Times(p) == Cardinality({x \in 1..Len(cells) : cells[x] = p})

\* C1: on an n x n matrix traverse returns n*n values, one for each cell
\* position, every position read exactly once; for n = 0 it returns [].
C1_EveryCellOnce ==
    Returned =>
        LET d == Len(matrix)
        IN /\ exc = NoExc
           /\ ret.kind = "list"
           /\ Len(ret.val) = d * d
           /\ Len(cells) = d * d
           /\ \A p \in Positions(d) : Times(p) = 1
           /\ \A x \in 1..Len(cells) :
                  /\ cells[x] \in Positions(d)
                  /\ ret.val[x] = matrix[cells[x][1] + 1][cells[x][2] + 1]
           /\ (d = 0 => ret.val = <<>>)

C1_Witness ==
    /\ Returned
    /\ matrix = Zeros(3)
    /\ Len(ret.val) = 9
    /\ Times(<<1, 1>>) = 1

\* C2: traverse raises no IndexError on a square matrix, and every access
\* matrix[i][j] of the four walks has 0 <= i <= n-1 and 0 <= j <= n-1.
C2_AccessInBounds ==
    /\ exc.type # "IndexError"
    /\ \A x \in 1..Len(cells) :
           /\ 0 <= cells[x][1] /\ cells[x][1] <= Len(matrix) - 1
           /\ 0 <= cells[x][2] /\ cells[x][2] <= Len(matrix) - 1

C2_Witness ==
    /\ entry = "traverse"
    /\ pc = "t_up"
    /\ top > 0
    /\ bottom < n - 2
    /\ k = top
    /\ cells[Len(cells)] = <<k + 1, right>>

\* C3 as stated: the 3x3 example yields [1,8,7,6,5,4,9,2,3].
C3_AsStated ==
    (Returned /\ matrix = Example3) => ret.val = <<1, 8, 7, 6, 5, 4, 9, 2, 3>>

\* C3, amended: for [[1,2,3],[8,9,4],[7,6,5]] traverse returns
\* [1,8,7,6,5,4,3,2,9].
C3_Example3 ==
    (Returned /\ matrix = Example3) =>
        ret = [kind |-> "list", val |-> <<1, 8, 7, 6, 5, 4, 3, 2, 9>>]

C3_Witness == Returned /\ matrix = Example3 /\ ret.kind = "list" /\ Len(cells) = 9

\* C4 as stated: the 2x2 example yields [4,3,2,1].
C4_AsStated == (Returned /\ matrix = Example2) => ret.val = <<4, 3, 2, 1>>

\* C4, amended: for [[1,2],[4,3]] traverse returns [1,4,3,2].
C4_Example2 ==
    (Returned /\ matrix = Example2) => ret = [kind |-> "list", val |-> <<1, 4, 3, 2>>]

C4_Witness == Returned /\ matrix = Example2 /\ ret.kind = "list" /\ Len(cells) = 4

AtLoopHead == entry = "traverse" /\ pc = "t_while"

\* C9: the loop terminates; no step decreases top or left or increases
\* bottom or right; every iteration ends with left above and bottom below
\* their values at its start; the loop is left exactly when top > bottom or
\* left > right; on a square input top = left and bottom = right whenever an
\* iteration starts.
C9_BoundsShrink ==
    /\ <>(pc = "done")
    /\ [][pc # "t_enter" =>
            /\ top' >= top
            /\ left' >= left
            /\ bottom' <= bottom
            /\ right' <= right]_vars
    /\ [][(pc # "t_while" /\ pc # "t_enter" /\ pc' = "t_while") =>
            /\ left' > head.left
            /\ bottom' < head.bottom]_vars
    /\ [][pc = "t_while" =>
            /\ (pc' = "t_return") = (top > bottom \/ left > right)
            /\ (pc' = "t_down") = (top <= bottom /\ left <= right)]_vars
    /\ [](AtLoopHead /\ top <= bottom /\ left <= right =>
            top = left /\ bottom = right)

C9_Witness ==
    /\ AtLoopHead
    /\ n = 4
    /\ head.left = 1
    /\ left = 2
    /\ bottom = head.bottom - 1

\* The counter-clockwise spiral from the top-left cell, ring by ring.
RingCells(d, r) ==
    [x \in 1..(d - 2 * r) |-> <<r + x - 1, r>>]
        \o [x \in 1..(d - 1 - 2 * r) |-> <<d - 1 - r, r + x>>]
        \o [x \in 1..(d - 1 - 2 * r) |-> <<d - 1 - r - x, d - 1 - r>>]
        \o [x \in 1..(d - 2 - 2 * r) |-> <<r, d - 1 - r - x>>]

RECURSIVE RingsFrom(_, _)
RingsFrom(d, r) ==
    IF d - 2 * r <= 0 THEN <<>> ELSE RingCells(d, r) \o RingsFrom(d, r + 1)

\* C10: the output is the reference counter-clockwise spiral: rings
\* outermost first, each ring down its left column, right along its bottom
\* row, up its right column, left along its top row; so the first n outputs
\* are the left column top to bottom and the first one is matrix[0][0].
C10_ReferenceSpiral ==
    Returned =>
        LET d == Len(matrix)
            ref == RingsFrom(d, 0)
        IN /\ ret.kind = "list"
           /\ Len(ret.val) = Len(ref)
           /\ \A x \in 1..Len(ref) : ret.val[x] = matrix[ref[x][1] + 1][ref[x][2] + 1]
           /\ \A x \in 1..d : ret.val[x] = matrix[x][1]
           /\ (d > 0 => ret.val[1] = matrix[1][1])

C10_Witness ==
    /\ Returned
    /\ matrix = RowMajor(MaxN)
    /\ Len(ret.val) = MaxN * MaxN
    /\ ret.val[MaxN + 1] = MaxN * (MaxN - 1) + 2

(***************************************************************************)
(* Properties of parse_matrix, checked under SpecParse.                    *)
(***************************************************************************)
NonEmpty(s) == s # <<>>

\* The non-empty trimmed fields of a line.
TrimmedFields(line) ==
    LET parts == Split(Strip(Strip(line, Whitespace), {"|"}), "|")
    IN SelectSeq([i \in 1..Len(parts) |-> Strip(parts[i], Whitespace)], NonEmpty)

IsCandidate(line) ==
    /\ ~StartsWith(Strip(line, Whitespace), "+")
    /\ Contains(line, "|")

\* The fields of the kept rows: non-border lines with '|' and a field.
KeptRows(t) ==
    LET all == Split(t, "\n")
    IN SelectSeq([i \in 1..Len(all) |->
                     IF IsCandidate(all[i]) THEN TrimmedFields(all[i]) ELSE <<>>],
                 NonEmpty)

\* The fields of all non-border lines with '|'.
CandidateFields(t) ==
    LET all == Split(t, "\n")
    IN UNION {{TrimmedFields(all[i])[j] : j \in 1..Len(TrimmedFields(all[i]))} :
                  i \in {x \in 1..Len(all) : IsCandidate(all[x])}}

\* A base-10 integer with an optional leading sign.
IsPlainInt(f) ==
    LET body == IF f # <<>> /\ f[1] \in {"+", "-"} THEN Tail(f) ELSE f
    IN body # <<>> /\ \A i \in 1..Len(body) : IsDigit(body[i])

Widths(t) == [i \in 1..Len(KeptRows(t)) |-> Len(KeptRows(t)[i])]

IsSquare(t) == \A i \in 1..Len(Widths(t)) : Widths(t)[i] = Len(Widths(t))

FirstOffender(t) ==
    CHOOSE i \in 1..Len(Widths(t)) :
        /\ Widths(t)[i] # Len(Widths(t))
        /\ \A j \in 1..(i - 1) : Widths(t)[j] = Len(Widths(t))

Parsed == entry = "parse_matrix" /\ pc = "done"

ShapeFailure == exc.type = "ValueError" /\ exc.msg = "not square"

\* C5: when every field is an integer, parse_matrix succeeds exactly when
\* every kept row has as many fields as there are kept rows; it then returns
\* the n rows of n integers in line and field order (the empty matrix for
\* no kept row), and otherwise fails with the shape error and no matrix.
C5_SquareOrShapeError ==
    (Parsed /\ \A f \in CandidateFields(text) : IntParse(f).ok) =>
        IF IsSquare(text)
        THEN /\ exc = NoExc
             /\ ret.kind = "matrix"
             /\ Len(ret.val) = Len(KeptRows(text))
             /\ \A i \in 1..Len(ret.val) :
                    /\ Len(ret.val[i]) = Len(ret.val)
                    /\ \A j \in 1..Len(ret.val[i]) :
                           ret.val[i][j] = IntParse(KeptRows(text)[i][j]).val
        ELSE ShapeFailure /\ ret = NoRet

C5_Witness ==
    /\ Parsed
    /\ ret.kind = "matrix"
    /\ Len(ret.val) = 2
    /\ Len(lines) = 3
    /\ ret.val[2][1] < 0

\* C6 as stated: the shape error reports the first kept row's field count
\* as expected and the offending row's field count as actual.
C6_AsStated ==
    (Parsed /\ ShapeFailure) =>
        /\ exc.expected = Widths(text)[1]
        /\ exc.actual = Widths(text)[FirstOffender(text)]

\* C6, amended: the shape error reports the number of kept rows n as the
\* expected count, and as actual the field count of the first row, in input
\* order, whose field count differs from n.
C6_ShapeErrorCounts ==
    (Parsed /\ ShapeFailure) =>
        /\ exc.expected = Len(KeptRows(text))
        /\ exc.actual = Widths(text)[FirstOffender(text)]

C6_Witness ==
    /\ Parsed
    /\ ShapeFailure
    /\ Len(KeptRows(text)) = 2
    /\ Widths(text) = <<3, 3>>
    /\ exc.expected = 2
    /\ exc.actual = 3

ParseFailure == exc.type = "ValueError" /\ exc.msg = "invalid literal"

\* C7 as stated: a non-empty field of a non-border line with '|' that is not
\* a base-10 integer with optional sign makes parse_matrix fail with the
\* parse error and return nothing.
C7_AsStated ==
    (Parsed /\ \E f \in CandidateFields(text) : ~IsPlainInt(f)) =>
        ParseFailure /\ ret = NoRet

\* C7, amended: a non-empty field of a non-border line with '|' that int()
\* rejects makes parse_matrix fail with the ValueError of int() and return
\* no matrix, whichever line the field is on and whatever the row widths.
C7_BadFieldFails ==
    (Parsed /\ \E f \in CandidateFields(text) : ~IntParse(f).ok) =>
        ParseFailure /\ ~ShapeFailure /\ ret = NoRet

C7_Witness ==
    /\ Parsed
    /\ ParseFailure
    /\ matrix # <<>>
    /\ li = 3
    /\ ~IsSquare(text)

(***************************************************************************)
(* Properties of get_matrix, checked under Spec.                           *)
(***************************************************************************)
\* parse_matrix has started: split() never returns an empty list.
FetchSucceeded == lines # <<>>

ParseFails(t) ==
    \/ \E f \in CandidateFields(t) : ~IntParse(f).ok
    \/ ~IsSquare(t)

\* C8: get_matrix calls traverse at most once, and only on the non-empty
\* square matrix parse_matrix returned after a successful fetch; a failed
\* fetch ends in ConnectionError, a failed parse or an empty matrix in
\* ValueError, both without a call of traverse and without a result.
C8_TraverseOnlyOnValidMatrix ==
    /\ calls <= 1
    /\ calls = 1 =>
           /\ FetchSucceeded
           /\ ~ParseFails(text)
           /\ matrix # <<>>
           /\ \A i \in 1..Len(matrix) : Len(matrix[i]) = Len(matrix)
           /\ Len(matrix) = Len(KeptRows(text))
           /\ exc = NoExc
    /\ pc = "done" =>
           IF ~FetchSucceeded
           THEN calls = 0 /\ ret = NoRet /\ exc.type = "ConnectionError"
           ELSE IF ParseFails(text) \/ KeptRows(text) = <<>>
           THEN calls = 0 /\ ret = NoRet /\ exc.type = "ValueError"
           ELSE calls = 1 /\ ret.kind = "list" /\ exc = NoExc

C8_Witness ==
    /\ pc = "done"
    /\ client = "closed"
    /\ calls = 1
    /\ ret.kind = "list"
    /\ Len(ret.val) = 9

====
